---- MODULE Spec2Model ----
(***************************************************************************)
(* Model of the statistical distance engine                                *)
(* (heuristic_comparisons/wasserstein_distance_testing.py) and of the csv  *)
(* wrangler (data/wranglers.py).                                           *)
(*                                                                         *)
(* Numbers.  Both distance values are produced by round(x, 3), so a        *)
(* distance value is modelled as an integer number of thousandths          *)
(* (0.030 is 30); the boundaries of LETTER_RANKS are written the same way. *)
(* A float NaN is the value NaN below, and every ordered comparison with   *)
(* it is false, as in IEEE 754.                                            *)
(*                                                                         *)
(* Populations hold floats with integer values.  A normalised measure      *)
(* (x - mean) / std of a draw x_1 .. x_n equals                            *)
(*     (n * x - S) / sqrt(n * Q - S * S),   S = sum x_i,  Q = sum x_i^2,   *)
(* and is kept as the pair [num |-> n * x - S, den2 |-> n * Q - S * S]:    *)
(* exact, ordered within one sample by num, and NaN (0 / 0) exactly when   *)
(* den2 = 0, that is when the draw has zero variance.  A probability i / n *)
(* is kept as the fraction [num |-> i, den |-> n].                         *)
(*                                                                         *)
(* scipy's wasserstein_distance and ks_2samp are modelled by their         *)
(* definitions; the p-value of ks_2samp, which nothing reads, only records *)
(* whether it is NaN.                                                      *)
(*                                                                         *)
(* A csv line is [response_time, runid, timestamp, action]; its response   *)
(* time is text, a sequence of characters with a decimal comma, and the    *)
(* float made of it is kept in tenths.                                     *)
(***************************************************************************)
EXTENDS Integers, Sequences, FiniteSets, TLC

VARIABLES
    pc,                   \* position of the program
    population_a,         \* __init__ argument (baseline)
    population_b,         \* __init__ argument (benchmark)
    sample_size,          \* self.sample_size
    draw_a,               \* indices np.random.choice drew for sample_a
    draw_b,               \* indices np.random.choice drew for sample_b
    sample_a,             \* self.sample_a
    sample_b,             \* self.sample_b
    wasserstein_d_value,  \* self.wasserstein_d_value
    ks_d_value,           \* self.ks_d_value
    ks_p_value,           \* self.ks_p_value
    rank,                 \* self.rank
    table,                \* self.LETTER_RANKS as seen by the classifier
    grade_i,              \* position of the for loop over LETTER_RANKS
    prev_rank,            \* rank of the previous classification
    redo,                 \* what was changed before classifying again
    data,                 \* ConvertCsvResultsIntoDictionary.data
    lines                 \* every csv line handed to add_chunk_to_json so far

vars == <<pc, population_a, population_b, sample_size, draw_a, draw_b,
          sample_a, sample_b, wasserstein_d_value, ks_d_value, ks_p_value,
          rank, table, grade_i, prev_rank, redo, data, lines>>

engineVars == <<population_a, population_b, sample_size, draw_a, draw_b,
                sample_a, sample_b, ks_p_value>>

csvVars == <<data, lines>>

-----------------------------------------------------------------------------
(* Bounds of the model *)

\* distance values are taken within Slack thousandths of every boundary
Slack == 1

\* the largest uniform shift (in thousandths) applied to the default table
MaxShift == 1

\* rows of the small, freely chosen rank tables
MaxRows == 2

\* largest boundary of the small, freely chosen rank tables
MaxBoundary == 1

\* longest population handed to the engine when every draw is enumerated
MaxPopulation == 3

\* populations of the engine hold the values 1 .. MaxMeasure
MaxMeasure == 2

\* longest population handed to the empirical distribution builder alone
MaxSampleSize == 26

\* lines of the csv file
MaxLines == 3

\* lines of one chunk of the csv file (pd.read_csv is given chunksize=10000)
MaxChunk == 2

-----------------------------------------------------------------------------
(* Floats *)

NaN == -1

None == "None"

\* mutation: the comparison is not strict
FloatLe(x, y) == x # NaN /\ y # NaN /\ x <= y

\* mutation: the comparison is reversed
FloatGt(x, y) == x # NaN /\ y # NaN /\ x > y

\* x < y on floats: false as soon as one side is NaN
FloatLt(x, y) == x # NaN /\ y # NaN /\ x < y

Min(S) == CHOOSE x \in S : \A y \in S : x <= y

Max(S) == CHOOSE x \in S : \A y \in S : x >= y

-----------------------------------------------------------------------------
(* The rank table *)

Grade(w, k, r) ==
    [wasserstein_boundary |-> w, kolmogorov_smirnov_boundary |-> k, rank |-> r]

\* the mutation of the table: the ks boundary of row A typed as 0.050
LETTER_RANKS_Typo ==
    << Grade(30, 80, "S"),
       Grade(60, 50, "A"),
       Grade(100, 170, "B"),
       Grade(125, 220, "C"),
       Grade(150, 260, "D"),
       Grade(200, 300, "E"),
       Grade(250, 340, "F") >>

LETTER_RANKS ==
    << Grade(30, 80, "S"),
       Grade(60, 150, "A"),
       Grade(100, 170, "B"),
       Grade(125, 220, "C"),
       Grade(150, 260, "D"),
       Grade(200, 300, "E"),
       Grade(250, 340, "F") >>

\* the labels from best to worst
RankOrder == <<"S", "A", "B", "C", "D", "E", "F">>

\* position of a label in the order S .. F (1 is best)
RankIndex(r) == CHOOSE i \in 1..Len(RankOrder) : RankOrder[i] = r

\* the tables a caller can supply: any boundaries, labels S, A, ... in order
SmallTables ==
    UNION { [1..n -> { Grade(w, k, "S") : w \in 0..MaxBoundary, k \in 0..MaxBoundary }]
            : n \in 0..MaxRows }

Relabel(T) == [i \in 1..Len(T) |-> [T[i] EXCEPT !.rank = RankOrder[i]]]

RankTables == { Relabel(T) : T \in SmallTables }

\* the default table with every boundary of a column moved up by the same amount
Shifted(T, dw, dk) ==
    [i \in 1..Len(T) |->
        Grade(T[i].wasserstein_boundary + dw,
              T[i].kolmogorov_smirnov_boundary + dk,
              T[i].rank)]

\* T2 has the labels of T1 in the same order and no smaller boundary
ScaledUp(T1, T2) ==
    /\ Len(T1) = Len(T2)
    /\ \A i \in 1..Len(T1) :
        /\ T2[i].rank = T1[i].rank
        /\ T2[i].wasserstein_boundary >= T1[i].wasserstein_boundary
        /\ T2[i].kolmogorov_smirnov_boundary >= T1[i].kolmogorov_smirnov_boundary

\* the tables the classifier is run against after `T`
NextTables(T) ==
    IF Len(T) = Len(LETTER_RANKS)
    THEN { Shifted(LETTER_RANKS, dw, dk) : dw \in 0..MaxShift, dk \in 0..MaxShift }
    ELSE RankTables

\* the values within Slack of a boundary of the column
NearColumn(T, column) ==
    { v \in UNION { (T[i][column] - Slack)..(T[i][column] + Slack) : i \in 1..Len(T) }
        : v >= 0 }

\* the distance values tried against a table: 0, NaN and, for the default
\* table, the values around every boundary, for a small table every value up
\* to one above the largest boundary
DistanceValues(T, column) ==
    IF Len(T) = Len(LETTER_RANKS)
    THEN NearColumn(T, column) \cup {0, NaN}
    ELSE 0..(MaxBoundary + 1) \cup {NaN}

-----------------------------------------------------------------------------
(* _letter_rank_distance_statistics: one step of the for loop *)

\* the mutation of the loop body: one value below its boundary is enough
ScanGradeBodyOr ==
    IF grade_i > Len(table)
    THEN /\ rank' = "F"
         /\ pc' = "done"
         /\ UNCHANGED grade_i
    ELSE LET grade == table[grade_i]
         IN  IF \/ FloatLt(wasserstein_d_value, grade.wasserstein_boundary)
                \/ FloatLt(ks_d_value, grade.kolmogorov_smirnov_boundary)
             THEN /\ rank' = grade.rank
                  /\ pc' = "done"
                  /\ UNCHANGED grade_i
             ELSE /\ grade_i' = grade_i + 1
                  /\ UNCHANGED <<rank, pc>>

ScanGradeBody ==
    IF grade_i > Len(table)
    THEN \* the loop is exhausted: return "F"
         /\ rank' = "F"
         /\ pc' = "done"
         /\ UNCHANGED grade_i
    ELSE LET grade == table[grade_i]
             ks_critical_grade == grade.kolmogorov_smirnov_boundary
             wasserstein_critical_grade == grade.wasserstein_boundary
         IN  IF /\ FloatLt(wasserstein_d_value, wasserstein_critical_grade)
                /\ FloatLt(ks_d_value, ks_critical_grade)
             THEN /\ rank' = grade.rank
                  /\ pc' = "done"
                  /\ UNCHANGED grade_i
             ELSE /\ grade_i' = grade_i + 1
                  /\ UNCHANGED <<rank, pc>>

ScanGrade ==
    /\ pc = "rank"
    /\ ScanGradeBody
    /\ UNCHANGED <<wasserstein_d_value, ks_d_value, table, prev_rank, redo>>
    /\ UNCHANGED engineVars
    /\ UNCHANGED csvVars

\* the same pair of distance values is classified again, against a table
\* with the same labels and boundaries at least as large
Reclassify ==
    /\ pc = "done"
    /\ redo # "value"
    /\ redo' = "table"
    /\ \E T \in NextTables(table) :
        /\ ScaledUp(table, T)
        /\ T # table
        /\ table' = T
    /\ prev_rank' = rank
    /\ rank' = None
    /\ grade_i' = 1
    /\ pc' = "rank"
    /\ UNCHANGED <<wasserstein_d_value, ks_d_value>>
    /\ UNCHANGED engineVars
    /\ UNCHANGED csvVars

\* another pair of distance values is classified against the default table:
\* one of the two values is larger, the other is the same
Regrade ==
    /\ pc = "done"
    /\ Len(table) = Len(LETTER_RANKS)
    /\ redo # "table"
    /\ redo' = "value"
    /\ wasserstein_d_value # NaN
    /\ ks_d_value # NaN
    /\ \/ /\ \E w \in DistanceValues(table, "wasserstein_boundary") \ {NaN} :
                /\ w > wasserstein_d_value
                /\ wasserstein_d_value' = w
          /\ UNCHANGED ks_d_value
       \/ /\ \E k \in DistanceValues(table, "kolmogorov_smirnov_boundary") \ {NaN} :
                /\ k > ks_d_value
                /\ ks_d_value' = k
          /\ UNCHANGED wasserstein_d_value
    /\ prev_rank' = rank
    /\ rank' = None
    /\ grade_i' = 1
    /\ pc' = "rank"
    /\ UNCHANGED table
    /\ UNCHANGED engineVars
    /\ UNCHANGED csvVars

InitRank ==
    /\ pc = "rank"
    /\ table \in RankTables \cup {LETTER_RANKS}
    /\ wasserstein_d_value \in DistanceValues(table, "wasserstein_boundary")
    /\ ks_d_value \in DistanceValues(table, "kolmogorov_smirnov_boundary")
    /\ rank = None
    /\ prev_rank = None
    /\ redo = None
    /\ grade_i = 1
    /\ population_a = <<>>
    /\ population_b = <<>>
    /\ sample_size = 0
    /\ draw_a = <<>>
    /\ draw_b = <<>>
    /\ sample_a = <<>>
    /\ sample_b = <<>>
    /\ ks_p_value = None
    /\ data = <<>>
    /\ lines = <<>>

NextRank == ScanGrade \/ Reclassify \/ Regrade

SpecRank == InitRank /\ [][NextRank]_vars /\ WF_vars(ScanGrade)

-----------------------------------------------------------------------------
(* Populations and the draws of np.random.choice *)

\* every population of at most MaxPopulation values
SmallPopulations ==
    UNION { [1..n -> 1..MaxMeasure] : n \in 1..MaxPopulation }

\* a population of `len` values that repeats 1 .. period
Sawtooth(len, period) == [i \in 1..len |-> 1 + ((i - 1) % period)]

Periods == {1, 3}

LongPopulations ==
    { Sawtooth(len, period) : len \in 1..MaxSampleSize, period \in Periods }

Offsets == {0, 2}

Strides == {0, 1, 3}

\* np.random.choice(population, size): `size` indices into the population,
\* with replacement.  Every index sequence when there are at most 27 of them,
\* otherwise the sequences offset, offset + stride, ... (modulo the length).
Draws(len, size) ==
    IF len <= 3 /\ size <= 3
    THEN [1..size -> 1..len]
    ELSE { [j \in 1..size |-> 1 + ((offset + (j - 1) * stride) % len)]
            : offset \in Offsets, stride \in Strides }

-----------------------------------------------------------------------------
(* normalize_raw_data *)

RECURSIVE SumSeq(_)
SumSeq(s) == IF s = <<>> THEN 0 ELSE Head(s) + SumSeq(Tail(s))

Squares(s) == [i \in 1..Len(s) |-> s[i] * s[i]]

\* n * n * (the variance of s)
Den2(s) == Len(s) * SumSeq(Squares(s)) - SumSeq(s) * SumSeq(s)

normalize_raw_data(raw_data) ==
    [i \in 1..Len(raw_data) |->
        [num |-> Len(raw_data) * raw_data[i] - SumSeq(raw_data),
         den2 |-> Den2(raw_data)]]

IsNaN(measure) == measure.den2 = 0

-----------------------------------------------------------------------------
(* _calculate_empirical_cumulative_distribution_function *)

\* order of two measures of one sample
MeasureLt(x, y) == x.num < y.num

\* the outlier threshold 0.96, in hundredths
TrimPercent95 == 96 - 1

TrimPercent == 96

\* mutation: ranks counted from 1
ProbabilityFromOne(i, n) == [num |-> i + 1, den |-> n]

\* np.arange(n) / float(n) at position i (from 0)
Probability(i, n) == [num |-> i, den |-> n]

\* mutation: only entries strictly above the threshold are dropped
IsOutlierStrict(probability) ==
    probability.num * 100 > TrimPercent * probability.den

\* probability >= 0.96.  The float i / n is the double nearest to the
\* fraction and 0.96 the double nearest to 24 / 25, so the comparison of the
\* floats is the comparison of the fractions for every n of this model.
IsOutlier(probability) ==
    probability.num * 100 >= TrimPercent * probability.den

\* sample[~(sample['probability'] >= 0.96)]: the rows kept, in order
RECURSIVE KeepRows(_)
KeepRows(rows) ==
    IF rows = <<>> THEN <<>>
    ELSE IF ~IsOutlier(Head(rows).probability)
         THEN <<Head(rows)>> \o KeepRows(Tail(rows))
         ELSE KeepRows(Tail(rows))

EmpiricalDistribution(population, draw) ==
    LET raw_data == [j \in 1..Len(draw) |-> population[draw[j]]]
        normalized_sample == normalize_raw_data(raw_data)
        sorted == SortSeq(normalized_sample, MeasureLt)
        sample == [i \in 1..Len(sorted) |->
                    [measure |-> sorted[i],
                     probability |-> Probability(i - 1, Len(normalized_sample))]]
    IN  KeepRows(sample)

-----------------------------------------------------------------------------
(* The distance statistics *)

Abs(x) == IF x < 0 THEN -x ELSE x

\* the largest r with r * r <= x, for 0 <= lo and x < hi * hi
RECURSIVE ISqrtBetween(_, _, _)
ISqrtBetween(x, lo, hi) ==
    IF hi - lo <= 1 THEN lo
    ELSE LET mid == (lo + hi) \div 2
         IN  IF mid * mid <= x THEN ISqrtBetween(x, mid, hi)
                               ELSE ISqrtBetween(x, lo, mid)

ISqrt(x) == ISqrtBetween(x, 0, 46341)

\* a measure in thousandths: num / sqrt(den2) * 1000, rounded towards zero
Milli(measure) ==
    LET magnitude == (Abs(measure.num) * 10000000) \div ISqrt(measure.den2 * 100000000)
    IN  IF measure.num < 0 THEN -magnitude ELSE magnitude

HasNaN(sample) == \E i \in 1..Len(sample) : IsNaN(sample[i].measure)

\* round(x, 3) of the quotient num / den of thousandths
RoundDiv(num, den) == (2 * num + den) \div (2 * den)

\* wasserstein_distance of two samples of one length: the mean distance
\* between the measures of equal position; NaN as soon as a measure is NaN
WassersteinDistance(a, b) ==
    IF HasNaN(a) \/ HasNaN(b) THEN NaN
    ELSE RoundDiv(SumSeq([i \in 1..Len(a) |->
                            Abs(Milli(a[i].measure) - Milli(b[i].measure))]),
                  Len(a))

\* x <= y on measures of any two samples, NaN ordered last as numpy sorts it
MeasureLeq(x, y) ==
    IF IsNaN(y) THEN TRUE
    ELSE IF IsNaN(x) THEN FALSE
    ELSE IF x.num <= 0 /\ y.num >= 0 THEN TRUE
    ELSE IF x.num > 0 /\ y.num < 0 THEN FALSE
    ELSE IF x.num > 0 THEN x.num * x.num * y.den2 <= y.num * y.num * x.den2
    ELSE x.num * x.num * y.den2 >= y.num * y.num * x.den2

\* the number of measures of the sample that are <= x
CountLeq(sample, x) ==
    Cardinality({ i \in 1..Len(sample) : MeasureLeq(sample[i].measure, x) })

\* the largest gap between the two empirical distribution functions, as a
\* number of entries of len(a) * len(b)
LargestGap(a, b) ==
    Max({ Abs(CountLeq(a, x) * Len(b) - CountLeq(b, x) * Len(a))
            : x \in { a[i].measure : i \in 1..Len(a) }
                    \cup { b[i].measure : i \in 1..Len(b) } })

\* the D statistic ks_2samp returns, rounded to thousandths.  With a NaN
\* measure the result depends on the scipy release: NaN, or the statistic of
\* the samples with NaN sorted last.
KolmogorovSmirnovStatistics(a, b) ==
    LET d == RoundDiv(1000 * LargestGap(a, b), Len(a) * Len(b))
    IN  IF HasNaN(a) \/ HasNaN(b) THEN {NaN, d} ELSE {d}

-----------------------------------------------------------------------------
(* __init__: the steps of the constructor *)

rankVars == <<wasserstein_d_value, ks_d_value, rank, table, grade_i, prev_rank, redo>>

SetSampleSize ==
    /\ pc = "start"
    /\ sample_size' = Min({Len(population_a), Len(population_b)})
    /\ pc' = "sample_a"
    /\ UNCHANGED <<population_a, population_b, draw_a, draw_b, sample_a, sample_b,
                   ks_p_value>>
    /\ UNCHANGED rankVars
    /\ UNCHANGED csvVars

BuildSampleA ==
    /\ pc = "sample_a"
    /\ \E draw \in Draws(Len(population_a), sample_size) :
        /\ draw_a' = draw
        /\ sample_a' = EmpiricalDistribution(population_a, draw)
    /\ pc' = "sample_b"
    /\ UNCHANGED <<population_a, population_b, sample_size, draw_b, sample_b,
                   ks_p_value>>
    /\ UNCHANGED rankVars
    /\ UNCHANGED csvVars

BuildSampleB ==
    /\ pc = "sample_b"
    /\ \E draw \in Draws(Len(population_b), sample_size) :
        /\ draw_b' = draw
        /\ sample_b' = EmpiricalDistribution(population_b, draw)
    /\ pc' = "wasserstein"
    /\ UNCHANGED <<population_a, population_b, sample_size, draw_a, sample_a,
                   ks_p_value>>
    /\ UNCHANGED rankVars
    /\ UNCHANGED csvVars

CalculateWasserstein ==
    /\ pc = "wasserstein"
    /\ wasserstein_d_value' = WassersteinDistance(sample_a, sample_b)
    /\ pc' = "kolmogorov_smirnov"
    /\ UNCHANGED <<ks_d_value, rank, table, grade_i, prev_rank, redo>>
    /\ UNCHANGED engineVars
    /\ UNCHANGED csvVars

CalculateKolmogorovSmirnov ==
    /\ pc = "kolmogorov_smirnov"
    /\ \E d \in KolmogorovSmirnovStatistics(sample_a, sample_b) :
        /\ ks_d_value' = d
        /\ ks_p_value' = IF d = NaN THEN "nan" ELSE "probability"
    /\ pc' = "rank"
    /\ UNCHANGED <<wasserstein_d_value, rank, table, grade_i, prev_rank, redo>>
    /\ UNCHANGED <<population_a, population_b, sample_size, draw_a, draw_b,
                   sample_a, sample_b>>
    /\ UNCHANGED csvVars

InitEngine(populations) ==
    /\ pc = "start"
    /\ population_a \in populations
    /\ population_b \in populations
    /\ sample_size = 0
    /\ draw_a = <<>>
    /\ draw_b = <<>>
    /\ sample_a = <<>>
    /\ sample_b = <<>>
    /\ wasserstein_d_value = None
    /\ ks_d_value = None
    /\ ks_p_value = None
    /\ rank = None
    /\ table = LETTER_RANKS
    /\ grade_i = 1
    /\ prev_rank = None
    /\ redo = None
    /\ data = <<>>
    /\ lines = <<>>

Init == InitEngine(SmallPopulations)

Next ==
    \/ SetSampleSize
    \/ BuildSampleA
    \/ BuildSampleB
    \/ CalculateWasserstein
    \/ CalculateKolmogorovSmirnov
    \/ ScanGrade

Spec == Init /\ [][Next]_vars

\* the two builds alone, on populations long enough for the trimming to act
InitEcdf == InitEngine(LongPopulations)

NextEcdf == SetSampleSize \/ BuildSampleA \/ BuildSampleB

SpecEcdf == InitEcdf /\ [][NextEcdf]_vars

-----------------------------------------------------------------------------
(* ConvertCsvResultsIntoDictionary *)

ResponseTimeTexts == { <<"1">>, <<"1", ",", "0">>, <<"2", ",", "5">> }

RunIds == {"run-1", "run-2"}

Timestamps == {"09:00", "09:01"}

Actions == {"login", "search"}

CsvLines == { <<text, runid, timestamp, action>> :
                text \in ResponseTimeTexts, runid \in RunIds,
                timestamp \in Timestamps, action \in Actions }

\* the chunks of n lines pd.read_csv can hand over
Chunks(n) == [1..n -> CsvLines]

\* str.replace(old, new)
Replace(text, old, new) ==
    [i \in 1..Len(text) |-> IF text[i] = old THEN new ELSE text[i]]

DigitChars == <<"0", "1", "2", "3", "4", "5", "6", "7", "8", "9">>

DigitValue(char) == (CHOOSE d \in 1..Len(DigitChars) : DigitChars[d] = char) - 1

\* the digits of a text read as a number
RECURSIVE DigitsValue(_)
DigitsValue(text) ==
    IF text = <<>> THEN 0
    ELSE 10 * DigitsValue(SubSeq(text, 1, Len(text) - 1)) + DigitValue(text[Len(text)])

\* float(text) in tenths, for a text of digits with at most one "." followed
\* by one digit
Float(text) ==
    IF \E i \in 1..Len(text) : text[i] = "."
    THEN LET dot == CHOOSE i \in 1..Len(text) : text[i] = "."
         IN  10 * DigitsValue(SubSeq(text, 1, dot - 1))
                + DigitsValue(SubSeq(text, dot + 1, Len(text)))
    ELSE 10 * DigitsValue(text)

\* mutation: the timestamp of a line of a known run id is not kept
AddLineDroppingTimestamp(d, line) ==
    LET response_time == Float(Replace(line[1], ",", "."))
        runid == line[2]
        timestamp == line[3]
        action == line[4]
    IN  IF runid \notin DOMAIN d
        THEN [r \in DOMAIN d \cup {runid} |->
                IF r = runid
                THEN [response_times |-> <<response_time>>,
                      timestamps |-> <<timestamp>>,
                      actions |-> <<action>>]
                ELSE d[r]]
        ELSE [d EXCEPT
                ![runid].response_times = Append(@, response_time),
                ![runid].actions = Append(@, action)]

\* the body of the for loop of add_chunk_to_json
AddLine(d, line) ==
    LET response_time == Float(Replace(line[1], ",", "."))
        runid == line[2]
        timestamp == line[3]
        action == line[4]
    IN  IF runid \notin DOMAIN d
        THEN [r \in DOMAIN d \cup {runid} |->
                IF r = runid
                THEN [response_times |-> <<response_time>>,
                      timestamps |-> <<timestamp>>,
                      actions |-> <<action>>]
                ELSE d[r]]
        ELSE [d EXCEPT
                ![runid].response_times = Append(@, response_time),
                ![runid].timestamps = Append(@, timestamp),
                ![runid].actions = Append(@, action)]

\* add_chunk_to_json: the lines of the chunk, in order
RECURSIVE add_chunk_to_json(_, _)
add_chunk_to_json(d, chunk) ==
    IF chunk = <<>> THEN d
    ELSE add_chunk_to_json(AddLine(d, Head(chunk)), Tail(chunk))

\* convert_csv_to_json: one round of the loop over the chunks of the file
AddChunk ==
    /\ pc = "reading"
    /\ \E n \in 1..Min({MaxChunk, MaxLines - Len(lines)}) :
        \E chunk \in Chunks(n) :
            /\ data' = add_chunk_to_json(data, chunk)
            /\ lines' = lines \o chunk
    /\ UNCHANGED pc
    /\ UNCHANGED engineVars
    /\ UNCHANGED rankVars

\* convert_csv_to_json: the file has no more chunks
EndOfFile ==
    /\ pc = "reading"
    /\ pc' = "converted"
    /\ UNCHANGED csvVars
    /\ UNCHANGED engineVars
    /\ UNCHANGED rankVars

InitCsv ==
    /\ pc = "reading"
    /\ data = <<>>
    /\ lines = <<>>
    /\ population_a = <<>>
    /\ population_b = <<>>
    /\ sample_size = 0
    /\ draw_a = <<>>
    /\ draw_b = <<>>
    /\ sample_a = <<>>
    /\ sample_b = <<>>
    /\ wasserstein_d_value = None
    /\ ks_d_value = None
    /\ ks_p_value = None
    /\ rank = None
    /\ table = LETTER_RANKS
    /\ grade_i = 1
    /\ prev_rank = None
    /\ redo = None

NextCsv == AddChunk \/ EndOfFile

SpecCsv == InitCsv /\ [][NextCsv]_vars

-----------------------------------------------------------------------------
(* Properties of the rank classifier *)

\* row i of the table admits the classified pair: both values strictly below
Admits(i) ==
    /\ wasserstein_d_value # NaN
    /\ ks_d_value # NaN
    /\ wasserstein_d_value < table[i].wasserstein_boundary
    /\ ks_d_value < table[i].kolmogorov_smirnov_boundary

AdmittingRows == { i \in 1..Len(table) : Admits(i) }

IsDefaultTable == table = LETTER_RANKS

RankLabels == { RankOrder[i] : i \in 1..Len(RankOrder) }

C1_Returned ==
    pc = "done" =>
        /\ AdmittingRows # {} => rank = table[Min(AdmittingRows)].rank
        /\ AdmittingRows = {} => rank = "F"
        /\ IsDefaultTable => rank \in RankLabels

\* C1: the scan returns the label of the first row of the table whose two
\* boundaries are both strictly above the two distance values, and "F" when
\* there is no such row; every scan ends; under the default table the result
\* is one of S, A, B, C, D, E, F.
C1_FirstAdmittingRow == [](C1_Returned) /\ ((pc = "rank") ~> (pc = "done"))

\* C1 witness: a row other than the first is returned because the rows before
\* it do not admit the pair.
C1_Witness ==
    /\ pc = "done"
    /\ IsDefaultTable
    /\ AdmittingRows # {}
    /\ Min(AdmittingRows) > 1
    /\ rank = table[Min(AdmittingRows)].rank

\* the rows of the default table whose wasserstein boundary is the classified value
TiedRows ==
    { i \in 1..Len(table) : wasserstein_d_value = table[i].wasserstein_boundary }

\* C2 as stated: under the default table, a wasserstein value equal to the
\* boundary of a row, any row from S to F, never receives the label of that row.
C2_TieNeverOwnRank ==
    (pc = "done" /\ IsDefaultTable) =>
        \A i \in TiedRows : rank # table[i].rank

\* C2 amended: under the default table, a wasserstein value equal to the
\* boundary of a row from S to E receives a strictly worse label than that
\* row's: the label of the next row when the ks value is below the next row's
\* ks boundary, a later one or F otherwise; at the boundary of the F row the
\* result is F, the fallback.
C2_TieFallsToStricterRank ==
    (pc = "done" /\ IsDefaultTable) =>
        \A i \in TiedRows :
            /\ i < Len(table) =>
                /\ RankIndex(rank) > RankIndex(table[i].rank)
                /\ (ks_d_value # NaN
                    /\ ks_d_value < table[i + 1].kolmogorov_smirnov_boundary)
                        => rank = table[i + 1].rank
            /\ i = Len(table) => rank = "F"

\* C2 witness: a value equal to the A boundary has been classified as B.
C2_Witness ==
    /\ pc = "done"
    /\ IsDefaultTable
    /\ wasserstein_d_value = 60
    /\ rank = "B"

\* the label a single value receives from one column of the table
ColumnRank(value, column) ==
    LET above == { i \in 1..Len(table) : value # NaN /\ value < table[i][column] }
    IN  IF above = {} THEN "F" ELSE table[Min(above)].rank

WorseRank(r1, r2) == IF RankIndex(r1) >= RankIndex(r2) THEN r1 ELSE r2

\* C3: under the default table the returned rank is the worse of the rank the
\* wasserstein value alone receives from the wasserstein column and the rank
\* the ks value alone receives from the ks column; and classifying a pair in
\* which one value is larger and the other the same never gives a better rank.
C3_WorseMetricDecides ==
    (pc = "done" /\ Len(table) = Len(LETTER_RANKS)) =>
        /\ rank = WorseRank(ColumnRank(wasserstein_d_value, "wasserstein_boundary"),
                            ColumnRank(ks_d_value, "kolmogorov_smirnov_boundary"))
        /\ redo = "value" => RankIndex(rank) >= RankIndex(prev_rank)

\* C3 witness: a pair mild by wasserstein (S) and extreme by ks (E) is ranked E.
C3_Witness ==
    /\ pc = "done"
    /\ IsDefaultTable
    /\ ColumnRank(wasserstein_d_value, "wasserstein_boundary") = "S"
    /\ ColumnRank(ks_d_value, "kolmogorov_smirnov_boundary") = "E"
    /\ rank = "E"

\* C4: classifying the same pair against a table with the same labels in the
\* same order and boundaries at least as large never gives a worse rank.
C4_LargerTableNeverWorse ==
    (pc = "done" /\ redo = "table") => RankIndex(rank) <= RankIndex(prev_rank)

\* C4 witness: the larger table has given a strictly better rank.
C4_Witness ==
    /\ pc = "done"
    /\ redo = "table"
    /\ RankIndex(rank) < RankIndex(prev_rank)

-----------------------------------------------------------------------------
(* Properties of the empirical distribution builder *)

Built == pc \notin {"start", "sample_a", "sample_b"}

\* the values np.random.choice drew
RawData(population, draw) == [j \in 1..Len(draw) |-> population[draw[j]]]

\* the number of positions 0 .. n - 1 whose probability i / n is below 0.96
KeptPositions(n) == Cardinality({ i \in 0..(n - 1) : 25 * i < 24 * n })

\* C6 as stated: every sample the builder returns has sample_size entries.
C6_LengthIsSampleSize ==
    /\ pc \notin {"start", "sample_a"} => Len(sample_a) = sample_size
    /\ Built => Len(sample_b) = sample_size

LengthAfterTrim(sample) ==
    /\ Len(sample) = KeptPositions(sample_size)
    /\ 25 * Len(sample) >= 24 * sample_size
    /\ 25 * (Len(sample) - 1) < 24 * sample_size
    /\ sample_size <= 24 => Len(sample) = sample_size
    /\ sample_size >= 25 => Len(sample) < sample_size

\* C6 amended: every sample the builder returns has as many entries as there
\* are positions i in 0 .. n - 1 with i / n < 0.96, n the sample size: that is
\* n rounded up from 0.96 * n, equal to n when n <= 24 and smaller than n when
\* n >= 25.
C6_LengthIsSampleSizeLessTail ==
    /\ pc \notin {"start", "sample_a"} => LengthAfterTrim(sample_a)
    /\ Built => LengthAfterTrim(sample_b)

\* C6 witness: a sample of size 25 has been built and holds 24 entries.
C6_Witness ==
    /\ Built
    /\ sample_size = 25
    /\ Len(sample_a) = 24
    /\ Len(sample_b) = 24

\* v is the value at sorted position j (from 1) of the sequence raw
IsOrderStatistic(raw, j, v) ==
    /\ \E i \in 1..Len(raw) : raw[i] = v
    /\ Cardinality({ i \in 1..Len(raw) : raw[i] < v }) <= j - 1
    /\ Cardinality({ i \in 1..Len(raw) : raw[i] <= v }) >= j

\* the sample holds, in order, the entries of the sorted positions below 0.96
IsTrimmedDistribution(sample, raw) ==
    LET n == Len(raw)
        total == SumSeq(raw)
    IN  /\ \A j \in 1..Len(sample) :
            /\ sample[j].probability = [num |-> j - 1, den |-> n]
            /\ 100 * (j - 1) < 96 * n
            /\ \E v \in { raw[i] : i \in 1..n } :
                /\ IsOrderStatistic(raw, j, v)
                /\ sample[j].measure.num = n * v - total
            /\ j > 1 => sample[j - 1].measure.num <= sample[j].measure.num
        /\ \A i \in 0..(n - 1) : 100 * i < 96 * n => i + 1 <= Len(sample)
        /\ Len(sample) <= n

\* C8: the sample the builder returns holds exactly the entries of the sorted
\* positions i, 0 <= i < n, with i / n < 0.96, in ascending order of measure,
\* the entry of position i carrying the probability i / n.
C8_SampleIsSortedTrimmedDraw ==
    /\ pc \notin {"start", "sample_a"}
        => IsTrimmedDistribution(sample_a, RawData(population_a, draw_a))
    /\ Built
        => IsTrimmedDistribution(sample_b, RawData(population_b, draw_b))

\* C8 witness: a sample of 26 draws of different values has lost its last
\* entry, the one of probability 25 / 26.
C8_Witness ==
    /\ Built
    /\ sample_size = 26
    /\ Len(sample_a) = 25
    /\ sample_a[1].measure.num < sample_a[25].measure.num
    /\ sample_a[25].probability = [num |-> 24, den |-> 26]

\* C10: a sample the builder returns is never empty, and loses no entry when
\* the sample size is at most 24; the two samples have one length.
C10_SamplesNeverEmpty ==
    Built =>
        /\ Len(sample_a) >= 1
        /\ Len(sample_b) >= 1
        /\ Len(sample_a) = Len(sample_b)
        /\ sample_a[1].probability.num = 0
        /\ sample_b[1].probability.num = 0
        /\ sample_size <= 24 =>
            /\ Len(sample_a) = sample_size
            /\ Len(sample_b) = sample_size

\* C10 witness: two samples of size 24 have been built and hold 24 entries.
C10_Witness ==
    /\ Built
    /\ sample_size = 24
    /\ Len(sample_a) = 24
    /\ Len(sample_b) = 24

-----------------------------------------------------------------------------
(* Properties of the constructor *)

AllIdentical(population) ==
    \A i, j \in 1..Len(population) : population[i] = population[j]

\* C5: with a population of identical values the constructor ends in a
\* DegenerateDistribution failure: it never completes with a report.
C5_DegenerateRejected ==
    (AllIdentical(population_a) \/ AllIdentical(population_b)) =>
        /\ pc # "done"
        /\ pc \in {"rank", "done"} =>
            /\ wasserstein_d_value # NaN
            /\ ks_d_value # NaN

\* two samples are equal as floats are: entry by entry, and no NaN
EqualSamples(a, b) == a = b /\ ~HasNaN(a) /\ ~HasNaN(b)

\* C7: when the two populations are the same sequence and the two builds
\* draw the same indices, the samples are equal and the report has
\* wasserstein_d_value 0.0, ks_d_value 0.0 and rank S.
C7_IdenticalDrawsRankS ==
    (pc = "done" /\ population_a = population_b /\ draw_a = draw_b) =>
        /\ EqualSamples(sample_a, sample_b)
        /\ wasserstein_d_value = 0
        /\ ks_d_value = 0
        /\ rank = "S"

-----------------------------------------------------------------------------
(* Properties of the csv conversion *)

\* the lines read so far that carry the run id, in the order they were read
LinesOfRun(runid) == SelectSeq(lines, LAMBDA line : line[2] = runid)

\* the float a response time text stands for, in tenths
TextValue(text) ==
    CASE text = <<"1">> -> 10
      [] text = <<"1", ",", "0">> -> 10
      [] text = <<"2", ",", "5">> -> 25

\* C9: after any number of chunks, the run ids of data are those of the lines
\* read, and for every run id the three lists have one length and their k-th
\* elements are the response time, the timestamp and the action of the k-th
\* line read with that run id.
C9_ListsFollowLines ==
    /\ DOMAIN data = { lines[i][2] : i \in 1..Len(lines) }
    /\ \A runid \in DOMAIN data :
        LET own == LinesOfRun(runid)
        IN  /\ Len(data[runid].response_times) = Len(own)
            /\ Len(data[runid].timestamps) = Len(own)
            /\ Len(data[runid].actions) = Len(own)
            /\ \A k \in 1..Len(own) :
                /\ data[runid].response_times[k] = TextValue(own[k][1])
                /\ data[runid].timestamps[k] = own[k][3]
                /\ data[runid].actions[k] = own[k][4]

\* C9 witness: the lines of two run ids were read interleaved, over more than
\* one chunk, and one run id has two entries.
C9_Witness ==
    /\ Len(lines) = 3
    /\ lines[1][2] = lines[3][2]
    /\ lines[1][2] # lines[2][2]
    /\ lines[1] # lines[3]
    /\ Len(data[lines[1][2]].actions) = 2
    /\ Len(data[lines[2][2]].actions) = 1

====
